---- MODULE Spec2Model ----
(***************************************************************************)
(* Model of assembly/benchmark.py: the two subcommands estsummary and      *)
(* rnaseqbench.  One run executes one subcommand; the alignment files and  *)
(* the size table are inputs that the run reads as it goes.                *)
(*                                                                         *)
(* Percentages are Python floats in the source.  Every comparison the code *)
(* makes is between x * 100. / y and an integer threshold; for the small   *)
(* integers of this model the correctly rounded quotient compares to the   *)
(* threshold exactly as the rational does, so the comparisons are written  *)
(* cross-multiplied over the integers.                                     *)
(***************************************************************************)
EXTENDS Integers, Sequences, FiniteSets, TLC

\* ---------------------------------------------------------------- bounds
\* Lines in an alignment file (raw or filtered).
MaxLines == 2
\* Positional arguments on the command line go from 0 to MaxArgs.
MaxArgs == 3

\* ------------------------------------------------------- program constants
DefaultIdent == 95
DefaultCov == 90

\* ------------------------------------------------------------ input domains
\* Query ids in the order a sorted alignment file presents them.
IdOrder == <<"q1", "q2">>
Ids == {IdOrder[i] : i \in 1..Len(IdOrder)}
Pos == {1, 2}
HitLens == {0, 2}
ErrCounts == {0, 1}
Lengths == {0, 2}
\* --iden / --cov: the defaults, or 50 for both
Cutoffs == {<<DefaultIdent, DefaultCov>>, <<50, 50>>}
ArgCounts == 0..MaxArgs
\* Contig ids in the order the query-filtered file presents them.
CtgOrder == <<"c1", "c2">>
\* Reference gene ids and the lengths a reference sequence can have.
Genes == {"g1", "g2"}
RefLengths == {1, 2, 3}
SubjectPos == {1, 2, 3}

\* A line of the tabular alignment file, as estsummary reads it.
BlastLines ==
    {b \in [qstart : Pos, qstop : Pos, hitlen : HitLens,
            nmismatch : ErrCounts, ngaps : ErrCounts] :
        b.nmismatch + b.ngaps <= b.hitlen}

\* A line of a filtered alignment file, as rnaseqbench reads it.  Query
\* coordinates run forward; subject coordinates run either way.
SupermapLines ==
    {x \in [subject : Genes, qstart : Pos, qstop : Pos,
            sstart : SubjectPos, sstop : SubjectPos] : x.qstart <= x.qstop}

\* The fields of a line that the reference-direction pass reads.
RefLines == [subject : Genes, sstart : SubjectPos, sstop : SubjectPos]

\* File paths are sequences of name parts; + is concatenation.
blastfile == <<"blastfile">>
querysupermap == blastfile \o <<".query.supermap">>
refsupermap == blastfile \o <<".ref.supermap">>
NoFile == <<>>

\* Sequences over S of length 1..n (a group yielded by iter_hits is not empty).
SeqsUpTo(S, n) == UNION {[1..k -> S] : k \in 1..n}

\* Subsets of S with at most n elements.
RECURSIVE SubsetsUpTo(_, _)
SubsetsUpTo(S, n) ==
    IF n <= 0 THEN {{}}
    ELSE LET P == SubsetsUpTo(S, n - 1) IN P \cup {T \cup {x} : T \in P, x \in S}

\* Size tables: id -> length for the ids the FASTA file holds.
SizeTables(I, V) == UNION {[D -> V] : D \in SUBSET I}

Abs(x) == IF x < 0 THEN -x ELSE x

EmptyMap == [x \in {} |-> 0]

VARIABLES cmd, nargs, pc, exit_status, error, help_printed, summary,
          sizes, total, blast, lineno,
          ident, cov,
          covered, mismatches, gaps, alignlen, queries,
          valid_count, mapped_count,
          query, blines,
          this_covered, this_alignlen, this_mismatches, this_gaps,
          disk, calls, known_genes, chimers, goodctg80, goodctg50,
          ctg, hits, bps, goodref80, goodref50

vars == <<cmd, nargs, pc, exit_status, error, help_printed, summary,
          sizes, total, blast, lineno,
          ident, cov,
          covered, mismatches, gaps, alignlen, queries,
          valid_count, mapped_count,
          query, blines,
          this_covered, this_alignlen, this_mismatches, this_gaps,
          disk, calls, known_genes, chimers, goodctg80, goodctg50,
          ctg, hits, bps, goodref80, goodref50>>

rnavars == <<disk, calls, known_genes, chimers, goodctg80, goodctg50,
             ctg, hits, bps, goodref80, goodref50>>

estvars == <<ident, cov, covered, mismatches, gaps, alignlen, queries,
             valid_count, mapped_count, query, blines,
             this_covered, this_alignlen, this_mismatches, this_gaps>>

\* ------------------------------------------------------------ Python pieces

\* OptionParser.print_help() writes the help text and returns None.
print_help == [kind |-> "none", val |-> 0]

\* sys.exit(arg): None is status 0, an integer is that status, anything
\* else is printed and the status is 1.
SysExit(arg) ==
    CASE arg.kind = "none" -> 0
      [] arg.kind = "int" -> arg.val % 256
      [] OTHER -> 1

\* An uncaught exception ends the interpreter with status 1.
UncaughtStatus == 1

\* ------------------------------------------------------- estsummary pieces

\* line 80: this_covered += abs(b.qstart - b.qstop + 1)
CoveredOf(b) == Abs(b.qstart - b.qstop + 1)

RECURSIVE SumCovered(_)
SumCovered(bl) ==
    IF bl = <<>> THEN 0 ELSE CoveredOf(Head(bl)) + SumCovered(Tail(bl))

RECURSIVE SumHitlen(_)
SumHitlen(bl) ==
    IF bl = <<>> THEN 0 ELSE Head(bl).hitlen + SumHitlen(Tail(bl))

RECURSIVE SumMismatch(_)
SumMismatch(bl) ==
    IF bl = <<>> THEN 0 ELSE Head(bl).nmismatch + SumMismatch(Tail(bl))

RECURSIVE SumGaps(_)
SumGaps(bl) ==
    IF bl = <<>> THEN 0 ELSE Head(bl).ngaps + SumGaps(Tail(bl))

\* Variant: the count goes up by the number of lines, not once per group.
MappedAfter_perline(m, bl) == m + Len(bl)

\* line 71: mapped_count += 1, once per group
MappedAfter(m, bl) == m + 1

\* Variant: the identity cutoff is inclusive.
IdentityAbove_inclusive(mm, gp, al, thr) == (100 - thr) * al >= (mm + gp) * 100

\* lines 85, 90: 100 - (mm + gp) * 100. / al > thr, for al > 0
IdentityAbove(mm, gp, al, thr) == (100 - thr) * al > (mm + gp) * 100

\* lines 86, 90: cv * 100. / size > thr, for size > 0
CoverageAbove(cv, size, thr) == cv * 100 > thr * size

\* line 90: if this_identity > ident and this_coverage > cov
IsValid(mm, gp, al, cv, size, ithr, cthr) ==
    IdentityAbove(mm, gp, al, ithr) /\ CoverageAbove(cv, size, cthr)

\* The keys iter_hits can still yield: the file is grouped by query, so a
\* query that has had its group does not come again.
\* They come in file order: after key `last`, only later keys.
NextKeys(order, last) ==
    {order[j] : j \in {i \in 1..Len(order) :
                          \A k \in 1..Len(order) : order[k] = last => k < i}}

\* ------------------------------------------------------ rnaseqbench pieces

\* Variant: the filter runs whether or not the artifact is there.
NeedsFilter_always(path, files) == TRUE

\* lines 142, 144: if not op.exists(path)
NeedsFilter(path, files) == path \notin files

\* lines 154, 174: abs(x.sstop - x.sstart) + 1
SpanOf(x) == Abs(x.sstop - x.sstart) + 1

RECURSIVE SumSpans(_)
SumSpans(S) ==
    IF S = {} THEN 0
    ELSE LET x == CHOOSE y \in S : TRUE IN SpanOf(x) + SumSpans(S \ {x})

\* lines 152-154, 172-174: bps[x.subject] += span, over the lines read
BpsOf(S) ==
    [s \in {x.subject : x \in S} |-> SumSpans({x \in S : x.subject = s})]

\* Variant: a subject without a size entry is passed over.
Missing_skipped(keys, table) == {}

\* lines 158, 177: the subjects whose lookup sizes[vh] raises KeyError
Missing(keys, table) == keys \ DOMAIN table

\* lines 159-160, 178-179: ratio = length * 100. / rsize; ratio >= 80
AtLeast80(length, rsize) == length * 100 >= 80 * rsize

\* Variant: the 50% test is written the wrong way round.
AtLeast50_reversed(length, rsize) == length * 100 <= 50 * rsize

\* lines 159-162, 178-181: ratio >= 50
AtLeast50(length, rsize) == length * 100 >= 50 * rsize

\* Variant: one subject is enough to count a chimer.
IsChimer_one(nsubjects) == nsubjects >= 1

\* line 166: if len(valid_hits) > 1
IsChimer(nsubjects) == nsubjects > 1

\* Two lines overlap in query coordinates (both run forward).
QueryOverlap(x, y) == x.qstart <= y.qstop /\ y.qstart <= x.qstop

Lo(x) == IF x.sstart <= x.sstop THEN x.sstart ELSE x.sstop
Hi(x) == IF x.sstart <= x.sstop THEN x.sstop ELSE x.sstart

\* Two lines overlap in subject coordinates.
SubjectOverlap(x, y) ==
    x.subject = y.subject /\ Lo(x) <= Hi(y) /\ Lo(y) <= Hi(x)

\* Subject coordinates lie inside the reference sequence.
WithinRef(x, table) ==
    x.subject \in DOMAIN table =>
        x.sstart <= table[x.subject] /\ x.sstop <= table[x.subject]

\* The groups a query-filtered file can hold for one contig: up to n lines,
\* pairwise disjoint in query coordinates.
QueryFiltered(n, table) ==
    {S \in SubsetsUpTo({x \in SupermapLines : WithinRef(x, table)}, n) :
        /\ S # {}
        /\ \A x, y \in S : x # y => ~QueryOverlap(x, y)}

\* The contents a reference-filtered file can have: up to n lines, pairwise
\* disjoint in subject coordinates.
RefFiltered(n, table) ==
    {S \in SubsetsUpTo({x \in RefLines : WithinRef(x, table)}, n) :
        \A x, y \in S : x # y => ~SubjectOverlap(x, y)}

\* ------------------------------------------------------------------- Init

Init ==
    /\ cmd \in {"estsummary", "rnaseqbench"}
    /\ nargs \in ArgCounts
    /\ pc = "start"
    /\ exit_status = -1
    /\ error = "none"
    /\ help_printed = FALSE
    /\ summary = "none"
    /\ sizes = EmptyMap
    /\ total = 0
    /\ blast = NoFile
    /\ lineno = 0
    /\ \E c \in Cutoffs :
          /\ ident = c[1] /\ cov = c[2]
          /\ cmd = "rnaseqbench" => c = <<DefaultIdent, DefaultCov>>
    /\ covered = 0
    /\ mismatches = 0
    /\ gaps = 0
    /\ alignlen = 0
    /\ queries = {}
    /\ valid_count = 0
    /\ mapped_count = 0
    /\ query = "none"
    /\ blines = <<>>
    /\ this_covered = 0
    /\ this_alignlen = 0
    /\ this_mismatches = 0
    /\ this_gaps = 0
    /\ disk \in SUBSET {querysupermap, refsupermap}
    /\ cmd = "estsummary" => disk = {}
    /\ calls = <<>>
    /\ known_genes = 0
    /\ chimers = 0
    /\ goodctg80 = {}
    /\ goodctg50 = {}
    /\ ctg = "none"
    /\ hits = {}
    /\ bps = EmptyMap
    /\ goodref80 = {}
    /\ goodref50 = {}

\* ------------------------------------------------------ estsummary actions

\* lines 48-51: wrong argument count
EstUsage ==
    /\ pc = "start" /\ cmd = "estsummary"
    /\ nargs # 2
    /\ help_printed' = TRUE
    /\ exit_status' = SysExit(print_help)
    /\ pc' = "usage"
    /\ UNCHANGED <<cmd, nargs, error, summary, sizes, total, blast, lineno>>
    /\ UNCHANGED estvars
    /\ UNCHANGED rnavars

\* lines 53-66: load the size table, open the alignment file
EstLoad ==
    /\ pc = "start" /\ cmd = "estsummary"
    /\ nargs = 2
    /\ \E t \in SizeTables(Ids, Lengths) :
          /\ sizes' = t
          /\ total' = Cardinality(DOMAIN t)
    /\ blast' = blastfile
    /\ pc' = "est_loop"
    /\ UNCHANGED <<cmd, nargs, exit_status, error, help_printed, summary, lineno>>
    /\ UNCHANGED estvars
    /\ UNCHANGED rnavars

\* lines 68-96: one iteration of the loop over iter_hits()
EstGroup ==
    /\ pc = "est_loop"
    /\ \E q \in NextKeys(IdOrder, query),
          bl \in SeqsUpTo(BlastLines, MaxLines - lineno) :
         LET cv == SumCovered(bl)
             al == SumHitlen(bl)
             mm == SumMismatch(bl)
             gp == SumGaps(bl)
         IN
         /\ query' = q
         /\ blines' = bl
         /\ lineno' = lineno + Len(bl)
         /\ queries' = queries \cup {q}
         /\ mapped_count' = MappedAfter(mapped_count, bl)
         /\ this_covered' = cv
         /\ this_alignlen' = al
         /\ this_mismatches' = mm
         /\ this_gaps' = gp
         /\ IF al = 0
            THEN \* line 85 divides by this_alignlen
                 /\ pc' = "failed"
                 /\ error' = "ZeroDivisionError"
                 /\ exit_status' = UncaughtStatus
                 /\ UNCHANGED <<valid_count, covered, mismatches, gaps, alignlen>>
            ELSE IF q \notin DOMAIN sizes
            THEN \* line 86 looks the query up
                 /\ pc' = "failed"
                 /\ error' = "KeyError"
                 /\ exit_status' = UncaughtStatus
                 /\ UNCHANGED <<valid_count, covered, mismatches, gaps, alignlen>>
            ELSE IF sizes[q] = 0
            THEN \* line 86 divides by sizes[query]
                 /\ pc' = "failed"
                 /\ error' = "ZeroDivisionError"
                 /\ exit_status' = UncaughtStatus
                 /\ UNCHANGED <<valid_count, covered, mismatches, gaps, alignlen>>
            ELSE /\ valid_count' =
                      IF IsValid(mm, gp, al, cv, sizes[q], ident, cov)
                      THEN valid_count + 1 ELSE valid_count
                 /\ covered' = covered + cv
                 /\ mismatches' = mismatches + mm
                 /\ gaps' = gaps + gp
                 /\ alignlen' = alignlen + al
                 /\ pc' = "est_loop"
                 /\ UNCHANGED <<error, exit_status>>
    /\ UNCHANGED <<cmd, nargs, help_printed, summary, sizes, total, blast,
                   ident, cov>>
    /\ UNCHANGED rnavars

\* lines 98-112: the stream is exhausted, print the summary
EstSummary ==
    /\ pc = "est_loop"
    /\ IF total = 0 \/ alignlen = 0
       THEN \* lines 102, 106 divide by total and by alignlen
            /\ summary' = "partial"
            /\ pc' = "failed"
            /\ error' = "ZeroDivisionError"
            /\ exit_status' = UncaughtStatus
       ELSE /\ summary' = "full"
            /\ pc' = "done"
            /\ exit_status' = 0
            /\ UNCHANGED error
    /\ UNCHANGED <<cmd, nargs, help_printed, sizes, total, blast, lineno>>
    /\ UNCHANGED estvars
    /\ UNCHANGED rnavars

\* ----------------------------------------------------- rnaseqbench actions

\* lines 130-133: wrong argument count
RnaUsage ==
    /\ pc = "start" /\ cmd = "rnaseqbench"
    /\ nargs # 2
    /\ help_printed' = TRUE
    /\ exit_status' = SysExit(print_help)
    /\ pc' = "usage"
    /\ UNCHANGED <<cmd, nargs, error, summary, sizes, total, blast, lineno>>
    /\ UNCHANGED estvars
    /\ UNCHANGED rnavars

\* lines 135-140: load the size table, derive the two artifact paths
RnaLoad ==
    /\ pc = "start" /\ cmd = "rnaseqbench"
    /\ nargs = 2
    /\ \E t \in SizeTables(Genes, RefLengths) :
          /\ sizes' = t
          /\ known_genes' = Cardinality(DOMAIN t)
    /\ pc' = "rna_qfilter"
    /\ UNCHANGED <<cmd, nargs, exit_status, error, help_printed, summary,
                   total, blast, lineno>>
    /\ UNCHANGED estvars
    /\ UNCHANGED <<disk, calls, chimers, goodctg80, goodctg50,
                   ctg, hits, bps, goodref80, goodref50>>

\* supermap(blastfile, filter=direction): writes the artifact of that
\* direction, or fails on a malformed alignment file.
Supermap(direction, path, nextpc) ==
    \/ /\ disk' = disk \cup {path}
       /\ calls' = Append(calls, direction)
       /\ pc' = nextpc
       /\ UNCHANGED <<error, exit_status>>
    \/ /\ calls' = Append(calls, direction)
       /\ pc' = "failed"
       /\ error' = "FilterError"
       /\ exit_status' = UncaughtStatus
       /\ UNCHANGED disk

\* lines 142-143: the query-direction artifact
RnaQueryFilter ==
    /\ pc = "rna_qfilter"
    /\ IF NeedsFilter(querysupermap, disk)
       THEN Supermap("query", querysupermap, "rna_rfilter")
       ELSE /\ pc' = "rna_rfilter"
            /\ UNCHANGED <<disk, calls, error, exit_status>>
    /\ UNCHANGED <<cmd, nargs, help_printed, summary, sizes, total, blast,
                   lineno>>
    /\ UNCHANGED estvars
    /\ UNCHANGED <<known_genes, chimers, goodctg80, goodctg50,
                   ctg, hits, bps, goodref80, goodref50>>

\* lines 144-150: the reference-direction artifact, then open the
\* query-direction artifact
RnaRefFilter ==
    /\ pc = "rna_rfilter"
    /\ IF NeedsFilter(refsupermap, disk)
       THEN Supermap("ref", refsupermap, "rna_qpass")
       ELSE /\ pc' = "rna_qpass"
            /\ UNCHANGED <<disk, calls, error, exit_status>>
    /\ blast' = IF pc' = "rna_qpass" THEN querysupermap ELSE blast
    /\ UNCHANGED <<cmd, nargs, help_printed, summary, sizes, total, lineno>>
    /\ UNCHANGED estvars
    /\ UNCHANGED <<known_genes, chimers, goodctg80, goodctg50,
                   ctg, hits, bps, goodref80, goodref50>>

\* lines 151-167: one iteration of the loop over iter_hits()
RnaQueryGroup ==
    /\ pc = "rna_qpass"
    /\ \E c \in NextKeys(CtgOrder, ctg),
          hs \in QueryFiltered(MaxLines - lineno, sizes) :
         LET b == BpsOf(hs)
             known == DOMAIN b \cap DOMAIN sizes
         IN
         /\ ctg' = c
         /\ hits' = hs
         /\ lineno' = lineno + Cardinality(hs)
         /\ bps' = b
         /\ IF Missing(DOMAIN b, sizes) # {}
            THEN \* line 158 raises; the items before it in dictionary
                 \* order have been classified
                 \E before \in SUBSET known :
                    /\ goodctg80' = IF \E s \in before : AtLeast80(b[s], sizes[s])
                                    THEN goodctg80 \cup {c} ELSE goodctg80
                    /\ goodctg50' = IF \E s \in before : AtLeast50(b[s], sizes[s])
                                    THEN goodctg50 \cup {c} ELSE goodctg50
                    /\ pc' = "failed"
                    /\ error' = "KeyError"
                    /\ exit_status' = UncaughtStatus
                    /\ UNCHANGED chimers
            ELSE /\ goodctg80' = IF \E s \in known : AtLeast80(b[s], sizes[s])
                                 THEN goodctg80 \cup {c} ELSE goodctg80
                 /\ goodctg50' = IF \E s \in known : AtLeast50(b[s], sizes[s])
                                 THEN goodctg50 \cup {c} ELSE goodctg50
                 /\ chimers' = IF IsChimer(Cardinality(DOMAIN b))
                               THEN chimers + 1 ELSE chimers
                 /\ pc' = "rna_qpass"
                 /\ UNCHANGED <<error, exit_status>>
    /\ UNCHANGED <<cmd, nargs, help_printed, summary, sizes, total, blast>>
    /\ UNCHANGED estvars
    /\ UNCHANGED <<disk, calls, known_genes, goodref80, goodref50>>

\* lines 169-172: the query-direction file is exhausted; open the
\* reference-direction artifact with a fresh bps
RnaQueryEnd ==
    /\ pc = "rna_qpass"
    /\ blast' = refsupermap
    /\ lineno' = 0
    /\ hits' = {}
    /\ bps' = EmptyMap
    /\ pc' = "rna_rread"
    /\ UNCHANGED <<cmd, nargs, exit_status, error, help_printed, summary,
                   sizes, total>>
    /\ UNCHANGED estvars
    /\ UNCHANGED <<disk, calls, known_genes, chimers, goodctg80, goodctg50,
                   ctg, goodref80, goodref50>>

\* lines 173-174: the loop over iter_line()
RnaRefRead ==
    /\ pc = "rna_rread"
    /\ \E ls \in RefFiltered(MaxLines, sizes) :
          /\ bps' = BpsOf(ls)
          /\ lineno' = Cardinality(ls)
    /\ pc' = "rna_rclassify"
    /\ UNCHANGED <<cmd, nargs, exit_status, error, help_printed, summary,
                   sizes, total, blast>>
    /\ UNCHANGED estvars
    /\ UNCHANGED <<disk, calls, known_genes, chimers, goodctg80, goodctg50,
                   ctg, hits, goodref80, goodref50>>

\* lines 176-182: the loop over bps.items()
RnaRefClassify ==
    /\ pc = "rna_rclassify"
    /\ LET known == DOMAIN bps \cap DOMAIN sizes IN
       IF Missing(DOMAIN bps, sizes) # {}
       THEN \E before \in SUBSET known :
               /\ goodref80' = {s \in before : AtLeast80(bps[s], sizes[s])}
               /\ goodref50' = {s \in before : AtLeast50(bps[s], sizes[s])}
               /\ pc' = "failed"
               /\ error' = "KeyError"
               /\ exit_status' = UncaughtStatus
       ELSE /\ goodref80' = {s \in known : AtLeast80(bps[s], sizes[s])}
            /\ goodref50' = {s \in known : AtLeast50(bps[s], sizes[s])}
            /\ pc' = "rna_summary"
            /\ UNCHANGED <<error, exit_status>>
    /\ UNCHANGED <<cmd, nargs, help_printed, summary, sizes, total, blast,
                   lineno>>
    /\ UNCHANGED estvars
    /\ UNCHANGED <<disk, calls, known_genes, chimers, goodctg80, goodctg50,
                   ctg, hits, bps>>

\* lines 184-194: print the summary
RnaSummary ==
    /\ pc = "rna_summary"
    /\ IF known_genes = 0
       THEN \* line 191 divides by known_genes
            /\ summary' = "partial"
            /\ pc' = "failed"
            /\ error' = "ZeroDivisionError"
            /\ exit_status' = UncaughtStatus
       ELSE /\ summary' = "full"
            /\ pc' = "done"
            /\ exit_status' = 0
            /\ UNCHANGED error
    /\ UNCHANGED <<cmd, nargs, help_printed, sizes, total, blast, lineno>>
    /\ UNCHANGED estvars
    /\ UNCHANGED rnavars

Next ==
    \/ EstUsage
    \/ EstLoad
    \/ EstGroup
    \/ EstSummary
    \/ RnaUsage
    \/ RnaLoad
    \/ RnaQueryFilter
    \/ RnaRefFilter
    \/ RnaQueryGroup
    \/ RnaQueryEnd
    \/ RnaRefRead
    \/ RnaRefClassify
    \/ RnaSummary

Spec == Init /\ [][Next]_vars

\* ------------------------------------------------------------- properties

\* C1: for both subcommands, a run whose positional argument count is not 2
\* prints the help, ends with a non-zero exit status, and has loaded no size
\* table, opened no alignment file and called no filter.
C1_UsageExitsNonZero ==
    pc = "usage" =>
        /\ help_printed
        /\ exit_status # 0
        /\ sizes = EmptyMap /\ blast = NoFile /\ calls = <<>>

\* C2: in estsummary a group of a known query whose summed aligned length is
\* 0, or whose length in the size table is 0, does not make the run fail.
C2_ZeroAggregateGuarded ==
    ( /\ cmd = "estsummary" /\ mapped_count > 0
      /\ query \in DOMAIN sizes
      /\ (this_alignlen = 0 \/ sizes[query] = 0) )
    => pc # "failed"

\* The covered bases of a line as the data model defines them.
SpanOfQuery(b) == Abs(b.qstart - b.qstop) + 1

RECURSIVE SumSpanOfQuery(_)
SumSpanOfQuery(bl) ==
    IF bl = <<>> THEN 0 ELSE SpanOfQuery(Head(bl)) + SumSpanOfQuery(Tail(bl))

\* C3: in estsummary the covered bases of a query group are the sum over
\* its lines of |qstart - qstop| + 1, whichever way the line runs.
C3_CoveredIsSpanSum ==
    (cmd = "estsummary" /\ mapped_count > 0) =>
        this_covered = SumSpanOfQuery(blines)

\* C4: in estsummary, after any prefix of the groups has been processed,
\* mapped_count <= total and valid_count <= mapped_count.
C4_CountsOrdered ==
    /\ valid_count <= mapped_count
    /\ pc # "failed" => mapped_count <= total

C4_Witness ==
    /\ pc = "est_loop" /\ total = 2
    /\ mapped_count = 2 /\ valid_count = 1

\* A step that processed a contig group of the query-direction pass.
QueryGroupDone == pc = "rna_qpass" /\ pc' = "rna_qpass" /\ ctg' # ctg

C6_Band80InBand50 ==
    /\ goodctg80 \subseteq goodctg50
    /\ goodref80 \subseteq goodref50

C6_Witness ==
    /\ pc = "done"
    /\ goodctg80 = {"c1"} /\ goodctg50 = {"c1", "c2"}
    /\ goodref80 = {"g1"} /\ goodref50 = {"g1", "g2"}

\* The file an aggregation state reads.
ArtifactOf(p) ==
    IF p = "rna_qpass" THEN querysupermap ELSE refsupermap

\* C7: the filter of a direction is called exactly when that direction's
\* artifact is absent, it is called nowhere else, and an aggregation state
\* has both artifacts on disk and reads the artifact of its own direction.
C7_FilterIffAbsent ==
    [][ /\ pc = "rna_qfilter" =>
              (calls' = Append(calls, "query") <=> querysupermap \notin disk)
        /\ pc = "rna_rfilter" =>
              (calls' = Append(calls, "ref") <=> refsupermap \notin disk)
        /\ pc \notin {"rna_qfilter", "rna_rfilter"} => calls' = calls
        /\ cmd = "rnaseqbench" => blast' # blastfile
        /\ pc' \in {"rna_qpass", "rna_rread", "rna_rclassify"} =>
              /\ {querysupermap, refsupermap} \subseteq disk'
              /\ blast' = ArtifactOf(pc') ]_vars

C7_Witness ==
    /\ pc = "rna_rclassify" /\ calls = <<"ref">>
    /\ blast = refsupermap /\ lineno > 0

EstGroupDone == pc = "est_loop" /\ pc' = "est_loop" /\ query' # query

\* C9: in estsummary valid_count goes up by one exactly in the steps that
\* process a query whose identity% is strictly above the identity cutoff
\* and whose coverage% is strictly above the coverage cutoff.
C9_ValidIffStrictlyAbove ==
    [][valid_count' = valid_count +
          (IF /\ EstGroupDone
              /\ 100 * this_alignlen' - 100 * (this_mismatches' + this_gaps')
                     > ident * this_alignlen'
              /\ 100 * this_covered' > cov * sizes[query']
           THEN 1 ELSE 0)]_vars

C9_Witness ==
    /\ pc = "est_loop" /\ mapped_count = 1 /\ valid_count = 0
    /\ 100 * this_alignlen - 100 * (this_mismatches + this_gaps)
           = ident * this_alignlen
    /\ 100 * this_covered > cov * sizes[query]

\* C10: with artifacts filtered as the filter promises, no coverage ratio
\* of rnaseqbench exceeds 100, in either pass.
C10_RatioAtMost100 ==
    cmd = "rnaseqbench" =>
        \A s \in DOMAIN bps \cap DOMAIN sizes : bps[s] * 100 <= 100 * sizes[s]


====
